---- MODULE Spec2Model ----
(***************************************************************************)
(* Model of BinanceManager (src/crypto_portfolio.py): one aggregation      *)
(* cycle of get_portfolio_data = _get_spot_data, then _get_earn_data       *)
(* (_get_all_simple_earn_positions, then _get_simple_earn_asset_positions  *)
(* for every known asset still missing), then validation, dust filter and  *)
(* sort; and the price resolver _get_current_price with its cache.         *)
(*                                                                         *)
(* The exchange is the environment: every reply (account listing, HTTP     *)
(* status, rows, ticker prices) is chosen by \E when the call is made.     *)
(* Quantities and values are counted in 1/Unit, prices in whole USDT, so   *)
(* that 1.0 USDT of value is Unit.                                         *)
(***************************************************************************)
EXTENDS Integers, Sequences, FiniteSets, TLC

VARIABLES
    pc,             \* position of the cycle inside get_portfolio_data
    now,            \* time.time(), in seconds
    ticks,          \* how often the clock has advanced (bounded)
    quote,          \* the exchange's last traded prices
    moves,          \* how often a quote has moved (bounded)
    price_cache,    \* self._price_cache: asset -> [price, time]
    last,           \* the last direct call of _get_current_price and its result
    spot_data,      \* _get_spot_data: the list being built, then returned
    all_positions,  \* _get_all_simple_earn_positions: all_positions
    positions,      \* the positions list of the bulk response / of the targeted call
    earn_data,      \* _get_earn_data: earn_data
    missing_assets, \* _get_earn_data: missing_assets
    mi,             \* index in missing_assets of the asset being looked up
    ep,             \* index in endpoints of the endpoint being queried
    attempt,        \* the retry loop's attempt
    rowsLeft,       \* rows of the response in hand not processed yet
    rowsSeen,       \* rows the exchange has sent in this cycle (bounded)
    rowlog,         \* rows of the response in hand already processed
    reqs,           \* HTTP requests sent by the retry loop now running
    lastResp,       \* how the last request of the retry loop now running ended
    slept,          \* TRUE iff the retry delay ran since that request
    tgt_positions,  \* everything the targeted calls returned, in call order
    earn_result,    \* the list _get_earn_data returned
    asked,          \* assets Strategy B has sent a request for, this cycle
    failed,         \* sources and bulk endpoints that failed this cycle
    tgtOk,          \* TRUE iff a targeted request was answered and processed
    tgtFailed,      \* assets for which a targeted endpoint gave nothing, this cycle
    result,         \* the list get_portfolio_data returned
    outcome,        \* "none" | "returned" | "raised"
    items,          \* a portfolio_data handed to the validation on its own
    valid_data,     \* the valid_data the validation built from items
    validated,      \* TRUE iff the validation of items has run
    config,         \* Config: which settings are set (truthy)
    mainpc,         \* position of main; "True" and "False" are its return values
    main_log,       \* what main has done so far
    sheet_data, \* the list handed to update_portfolio
    sheet,          \* the Portfolio tab: row -> column -> cell
    overview,       \* the Overview tab: row -> its cells A..E
    chart,          \* the Grafico tab: its rows A..C, top down
    upc,            \* position inside update_portfolio
    started,        \* calls of update_portfolio so far
    returned        \* calls of update_portfolio that returned

vars == <<pc, now, ticks, quote, moves, price_cache, last, spot_data, all_positions,
          positions, earn_data, missing_assets, mi, ep, attempt, rowsLeft,
          rowsSeen, rowlog, reqs, lastResp, slept, tgt_positions, earn_result,
          asked, failed, tgtOk, tgtFailed, result, outcome, items, valid_data,
          validated, config, mainpc, main_log, sheet_data, sheet, overview,
          chart, upc, started, returned>>

(***************************************************************************)
(* Bounds of the model.                                                    *)
(***************************************************************************)
MaxRows   == 2   \* rows in one response of the exchange
MaxCycleRows == 2 \* rows in all the responses of one cycle
MaxAmount == 2   \* largest amount in a row, in 1/Unit
MaxMoves  == 1   \* moves of a quote in a run
MaxTicks  == 1   \* clock advances in a run
MaxResolves == 2 \* direct calls of _get_current_price in a run
MaxItems  == 2   \* dicts in a portfolio_data validated on its own
MaxRuns   == 2   \* runs of main against the same spreadsheet
Unit      == 4   \* 1.0 is Unit: amounts and values are counted in 1/Unit

(***************************************************************************)
(* Program constants.                                                      *)
(***************************************************************************)
TTL            == 300  \* seconds a cached price stays valid
BulkAttempts   == 3    \* range(3)
TargetAttempts == 2    \* range(2)
Fail           == -1   \* a ticker call that raised

\* known_assets restricted to the assets of the model, in the list's order
known_assets == <<"BTC", "ETH">>
\* assets the exchange may report; XRP is not in known_assets
Assets == {"BTC", "ETH", "XRP"}
\* assets the account listing may report; LD* are the Launchpool wrappers
SpotAssets == Assets \cup {"LDBTC"}
endpoints == <<"FLEXIBLE", "LOCKED">>
\* latestAnnualPercentageRate values a row may report
Rates == {1}
Delays == {TTL - 1, TTL}

Range(s) == {s[i] : i \in DOMAIN s}

\* str.startswith('LD')
StartsWithLD(asset) == asset \in {"LDBTC"}

\* a variant that tags every position as flexible
Title_Flexible(product_type) == "Flexible"

\* str.title() of the product types
Title(product_type) == IF product_type = "FLEXIBLE" THEN "Flexible" ELSE "Locked"

(***************************************************************************)
(* _get_current_price.  tk is what the three ticker calls would answer:    *)
(* tk.direct for <asset>USDT, tk.hop1 for <asset>BTC, tk.hop2 for BTCUSDT, *)
(* each a price or Fail.                                                   *)
(***************************************************************************)
\* which of the three ticker calls answer, were they made: the direct one;
\* none; the first hop alone; both hops (a call that is never reached is
\* left answering)
Avail ==
    {[direct |-> TRUE,  hop1 |-> TRUE,  hop2 |-> TRUE],
     [direct |-> FALSE, hop1 |-> FALSE, hop2 |-> TRUE],
     [direct |-> FALSE, hop1 |-> TRUE,  hop2 |-> FALSE],
     [direct |-> FALSE, hop1 |-> TRUE,  hop2 |-> TRUE]}

\* client.get_symbol_ticker for the three symbols, under quotes q
Tickers(q, asset, av) ==
    [direct |-> IF av.direct THEN q.usdt[asset] ELSE Fail,
     hop1   |-> IF av.hop1 THEN q.btc[asset] ELSE Fail,
     hop2   |-> IF av.hop2 THEN q.usdt["BTC"] ELSE Fail]

\* the quotes at the start: <asset>USDT and <asset>BTC
Quote0 ==
    [usdt |-> [a \in Assets |-> CASE a = "BTC" -> 2 [] a = "ETH" -> 4 [] OTHER -> 2],
     btc  |-> [a \in Assets |-> CASE a = "BTC" -> 1 [] a = "ETH" -> 2 [] OTHER -> 1]]

\* a variant that lets an entry expire one second early
CacheFresh_Early(cache, t, asset) ==
    /\ asset \in DOMAIN cache
    /\ t - cache[asset].time < TTL - 1

CacheFresh(cache, t, asset) ==
    /\ asset \in DOMAIN cache
    /\ t - cache[asset].time < TTL

\* a variant that leaves an entry already there as it is
CachePut_KeepOld(cache, asset, price, t) ==
    [a \in DOMAIN cache \cup {asset} |->
        IF a \in DOMAIN cache THEN cache[a] ELSE [price |-> price, time |-> t]]

CachePut(cache, asset, price, t) ==
    [a \in DOMAIN cache \cup {asset} |->
        IF a = asset THEN [price |-> price, time |-> t] ELSE cache[a]]

\* a variant whose two-hop path returns the first hop's price unconverted
GetCurrentPrice_Unconverted(cache, t, asset, tk) ==
    IF CacheFresh(cache, t, asset)
    THEN [price |-> cache[asset].price, cache |-> cache, calls |-> <<>>]
    ELSE IF tk.direct # Fail
    THEN [price |-> tk.direct,
          cache |-> CachePut(cache, asset, tk.direct, t),
          calls |-> <<"USDT">>]
    ELSE IF tk.hop1 = Fail
    THEN [price |-> 0, cache |-> cache, calls |-> <<"USDT", "BTC">>]
    ELSE IF tk.hop2 = Fail
    THEN [price |-> 0, cache |-> cache, calls |-> <<"USDT", "BTC", "BTCUSDT">>]
    ELSE [price |-> tk.hop1,
          cache |-> CachePut(cache, asset, tk.hop1, t),
          calls |-> <<"USDT", "BTC", "BTCUSDT">>]

\* a variant that falls back to the entry it found too old
PriceNotFound_Stale(cache, asset, calls) ==
    [price |-> IF asset \in DOMAIN cache THEN cache[asset].price ELSE 0,
     cache |-> cache, calls |-> calls]

\* the inner except: return 0.0, before the cache is written
PriceNotFound(cache, asset, calls) ==
    [price |-> 0, cache |-> cache, calls |-> calls]

GetCurrentPrice(cache, t, asset, tk) ==
    IF CacheFresh(cache, t, asset)
    THEN [price |-> cache[asset].price, cache |-> cache, calls |-> <<>>]
    ELSE IF tk.direct # Fail
    THEN [price |-> tk.direct,
          cache |-> CachePut(cache, asset, tk.direct, t),
          calls |-> <<"USDT">>]
    ELSE IF tk.hop1 = Fail
    THEN PriceNotFound(cache, asset, <<"USDT", "BTC">>)
    ELSE IF tk.hop2 = Fail
    THEN PriceNotFound(cache, asset, <<"USDT", "BTC", "BTCUSDT">>)
    ELSE [price |-> tk.hop1 * tk.hop2,
          cache |-> CachePut(cache, asset, tk.hop1 * tk.hop2, t),
          calls |-> <<"USDT", "BTC", "BTCUSDT">>]

(***************************************************************************)
(* Holdings and the list operations of _get_earn_data and                  *)
(* get_portfolio_data.                                                     *)
(***************************************************************************)
\* a variant whose current_value leaves the price out
Holding_Unpriced(asset, quantity, price, source, type, apr) ==
    [asset |-> asset, quantity |-> quantity, current_price |-> price,
     current_value |-> quantity, source |-> source, type |-> type,
     apr |-> apr]

\* the dict appended by the three fetches (the fields that are always 0.0 left out)
Holding(asset, quantity, price, source, type, apr) ==
    [asset |-> asset, quantity |-> quantity, current_price |-> price,
     current_value |-> quantity * price, source |-> source, type |-> type,
     apr |-> apr]

AssetsOf(seq) == {seq[i].asset : i \in DOMAIN seq}

\* a variant that looks every known asset up again
MissingAssets_All(found) == known_assets

\* missing_assets = [asset for asset in known_assets if asset not in found_assets]
MissingAssets(found) == SelectSeq(known_assets, LAMBDA a : a \notin found)

\* the seen_assets loop: keep an item iff its asset was not seen before
RECURSIVE DedupFrom(_, _, _)
DedupFrom(seq, unique, seen) ==
    IF seq = <<>> THEN unique
    ELSE IF Head(seq).asset \notin seen
         THEN DedupFrom(Tail(seq), Append(unique, Head(seq)), seen \cup {Head(seq).asset})
         ELSE DedupFrom(Tail(seq), unique, seen)

\* a variant that returns earn_data as it is
RemoveDuplicates_Skipped(seq) == seq

RemoveDuplicates(seq) == DedupFrom(seq, <<>>, {})

\* step 3 of get_portfolio_data: quantity, price and value numeric and > 0
IsValid(item) ==
    /\ item.quantity > 0
    /\ item.current_price > 0
    /\ item.current_value > 0

\* a variant that also drops a value of exactly 1.0
AboveDust_Strict(item) == item.current_value > Unit

\* step 3 on any list of dicts.  A value of a dict is [kind, val]: kind is
\* "absent" (no such key), "none" (None), "str" (a string) or "num" (an int
\* or float, val)
required_fields == <<"asset", "quantity", "current_price", "current_value">>

Absent == [kind |-> "absent", val |-> 0]
None == [kind |-> "none", val |-> 0]
Str == [kind |-> "str", val |-> 0]
Num(n) == [kind |-> "num", val |-> n]

\* isinstance(v, (int, float))
IsNumber(v) == v.kind = "num"

\* a variant that leaves the "> 0" tests out
Validates_AnyNumber(item) ==
    /\ \A f \in Range(required_fields) : item[f].kind \notin {"absent", "none"}
    /\ IsNumber(item.quantity)
    /\ IsNumber(item.current_price)
    /\ IsNumber(item.current_value)

\* the two ifs of step 3: TRUE iff valid_data.append(item) is reached
Validates(item) ==
    /\ \A f \in Range(required_fields) : item[f].kind \notin {"absent", "none"}
    /\ IsNumber(item.quantity) /\ item.quantity.val > 0
    /\ IsNumber(item.current_price) /\ item.current_price.val > 0
    /\ IsNumber(item.current_value) /\ item.current_value.val > 0

\* "for item in portfolio_data" of step 3
ValidData(portfolio_data) == SelectSeq(portfolio_data, Validates)

\* the dicts of the validation's inputs: well-formed ones, and those with one
\* field taken away or replaced
GoodItems ==
    {[asset |-> Str, quantity |-> Num(q), current_price |-> Num(1),
      current_value |-> Num(q)] : q \in {1, 2}}
BadValues == {Absent, None, Str, Num(0), Num(-1)}
BadItems ==
    {[g EXCEPT ![f] = b] : g \in GoodItems,
                           f \in {"quantity", "current_price", "current_value"},
                           b \in BadValues}
        \cup {[g EXCEPT !.asset = b] : g \in GoodItems, b \in {Absent, None}}
ItemLists == UNION {[1..n -> GoodItems \cup BadItems] : n \in 0..MaxItems}

\* step 4: current_value >= 1.0
AboveDust(item) == item.current_value >= Unit

\* a variant that puts an item before the items of the same value
RECURSIVE InsertDesc_TiesFirst(_, _)
InsertDesc_TiesFirst(item, sorted) ==
    IF sorted = <<>> THEN <<item>>
    ELSE IF Head(sorted).current_value > item.current_value
         THEN <<Head(sorted)>> \o InsertDesc_TiesFirst(item, Tail(sorted))
         ELSE <<item>> \o sorted

\* step 5: list.sort(key=current_value, reverse=True), which is stable
RECURSIVE InsertDesc(_, _)
InsertDesc(item, sorted) ==
    IF sorted = <<>> THEN <<item>>
    ELSE IF Head(sorted).current_value >= item.current_value
         THEN <<Head(sorted)>> \o InsertDesc(item, Tail(sorted))
         ELSE <<item>> \o sorted

RECURSIVE SortDesc(_)
SortDesc(seq) ==
    IF seq = <<>> THEN <<>>
    ELSE InsertDesc(seq[Len(seq)], SortDesc(SubSeq(seq, 1, Len(seq) - 1)))

\* a variant that leaves the sort out
ValidateFilterSort_Unsorted(portfolio_data) ==
    SelectSeq(SelectSeq(portfolio_data, IsValid), AboveDust)

\* steps 3-5 on portfolio_data
ValidateFilterSort(portfolio_data) ==
    SortDesc(SelectSeq(SelectSeq(portfolio_data, IsValid), AboveDust))

(***************************************************************************)
(* The retry loops: for attempt in range(n), with the delay guarded by     *)
(* attempt < n - 1 (attempt < 2 in the bulk loop, attempt < 1 in the       *)
(* targeted one).                                                          *)
(***************************************************************************)
\* a variant with one attempt more
MoreAttempts_OneMore(a, n) == a < n

MoreAttempts(a, n) == a + 1 < n
SleepBeforeRetry(a, n) == a < n - 1

Responses == {"neterr", "non200", "badbody", "ok"}

\* a variant that lets a price of 0 through
Priced_OrZero(price) == price >= 0

\* "if current_price > 0" of the three fetches
Priced(price) == price > 0

(***************************************************************************)
(* The cycle's state as a record, and the steps as functions on it.        *)
(***************************************************************************)
Cur ==
    [pc |-> pc, price_cache |-> price_cache,
     spot_data |-> spot_data, all_positions |-> all_positions,
     positions |-> positions, earn_data |-> earn_data,
     missing_assets |-> missing_assets, mi |-> mi, ep |-> ep,
     attempt |-> attempt, rowsLeft |-> rowsLeft, rowsSeen |-> rowsSeen,
     rowlog |-> rowlog,
     reqs |-> reqs, lastResp |-> lastResp, slept |-> slept,
     tgt_positions |-> tgt_positions, earn_result |-> earn_result,
     asked |-> asked, failed |-> failed, tgtOk |-> tgtOk,
     tgtFailed |-> tgtFailed,
     result |-> result, outcome |-> outcome]

Becomes(s) ==
    /\ pc' = s.pc
    /\ price_cache' = s.price_cache
    /\ spot_data' = s.spot_data
    /\ all_positions' = s.all_positions
    /\ positions' = s.positions
    /\ earn_data' = s.earn_data
    /\ missing_assets' = s.missing_assets
    /\ mi' = s.mi
    /\ ep' = s.ep
    /\ attempt' = s.attempt
    /\ rowsLeft' = s.rowsLeft
    /\ rowsSeen' = s.rowsSeen
    /\ rowlog' = s.rowlog
    /\ reqs' = s.reqs
    /\ lastResp' = s.lastResp
    /\ slept' = s.slept
    /\ tgt_positions' = s.tgt_positions
    /\ earn_result' = s.earn_result
    /\ asked' = s.asked
    /\ failed' = s.failed
    /\ tgtOk' = s.tgtOk
    /\ tgtFailed' = s.tgtFailed
    /\ result' = s.result
    /\ outcome' = s.outcome

\* a row the fetch has gone through: looked iff _get_current_price was called
LogEntry(asset, quantity, looked, price, raised) ==
    [asset |-> asset, quantity |-> quantity, looked |-> looked,
     price |-> price, raised |-> raised]

\* a balance the Spot fetch has gone through: the log entry and the row's
\* free and locked as the exchange sent them
BalanceEntry(row, asset, quantity, looked, price, raised) ==
    [asset |-> asset, quantity |-> quantity, looked |-> looked,
     price |-> price, raised |-> raised, free |-> row.free, locked |-> row.locked]

\* a variant that lets an empty balance through
HasBalance_OrEmpty(total) == total >= 0

\* "if total > 0" of the Spot fetch
HasBalance(total) == total > 0

\* the start of "for attempt in range(n)" for endpoint e
StartLoop(s, stage, e) ==
    [s EXCEPT !.pc = stage, !.ep = e, !.attempt = 0, !.reqs = 0,
              !.lastResp = "none", !.slept = FALSE, !.rowsLeft = 0]

\* a variant that raises when a source or an endpoint failed
FinishPortfolio_Strict(s) ==
    IF s.failed # {}
    THEN [s EXCEPT !.outcome = "raised", !.pc = "done"]
    ELSE [s EXCEPT !.result = ValidateFilterSort(s.spot_data \o s.earn_result),
                   !.outcome = "returned", !.pc = "done"]

\* get_portfolio_data after both fetches: validate, filter, sort, return
FinishPortfolio(s) ==
    [s EXCEPT !.result = ValidateFilterSort(s.spot_data \o s.earn_result),
              !.outcome = "returned", !.pc = "done"]

\* _get_earn_data: remove the duplicates and return; the locals of the
\* calls that have returned are gone
FinishEarn(s) ==
    FinishPortfolio([s EXCEPT !.earn_result = RemoveDuplicates(s.earn_data),
                              !.positions = <<>>, !.mi = 0, !.ep = 0,
                              !.attempt = 0, !.reqs = 0, !.lastResp = "none",
                              !.slept = FALSE, !.rowsLeft = 0])

\* _get_simple_earn_asset_positions(missing_assets[i]) begins
StartTargeted(s, i) ==
    StartLoop([s EXCEPT !.mi = i, !.positions = <<>>], "tgt", 1)

\* _get_simple_earn_asset_positions returns positions; _get_earn_data extends
\* earn_data by it and goes to the next missing asset
TgtReturn(s) ==
    LET s1 == [s EXCEPT !.earn_data = @ \o s.positions,
                        !.tgt_positions = @ \o s.positions]
    IN  IF s.mi < Len(s.missing_assets)
        THEN StartTargeted(s1, s.mi + 1)
        ELSE FinishEarn(s1)

\* the targeted call's "for product_type, url in endpoints" moves on
TgtNextEndpoint(s) ==
    IF s.ep < Len(endpoints) THEN StartLoop(s, "tgt", s.ep + 1) ELSE TgtReturn(s)

\* a variant in which a failed targeted lookup ends Strategy B
TgtFailed_Aborts(s) ==
    FinishEarn([s EXCEPT !.tgtFailed = @ \cup {s.missing_assets[s.mi]},
                         !.earn_data = @ \o s.positions,
                         !.tgt_positions = @ \o s.positions])

\* the targeted endpoint gave nothing: attempts exhausted, or processing
\* raised; the loop over the endpoints goes on
TgtFailed(s) ==
    TgtNextEndpoint([s EXCEPT !.tgtFailed = @ \cup {s.missing_assets[s.mi]}])

\* the targeted 200 response was processed: break
TgtBreak(s) == TgtNextEndpoint([s EXCEPT !.tgtOk = TRUE])

\* _get_all_simple_earn_positions returned; _get_earn_data computes the
\* missing assets and starts Strategy B, or finishes
AfterBulk(s) ==
    LET s1 == [s EXCEPT !.earn_data = s.all_positions,
                        !.missing_assets = MissingAssets(AssetsOf(s.all_positions))]
    IN  IF s1.missing_assets # <<>> THEN StartTargeted(s1, 1) ELSE FinishEarn(s1)

\* the bulk call's "for product_type, url in endpoints" moves on
BulkNextEndpoint(s) ==
    IF s.ep < Len(endpoints) THEN StartLoop(s, "bulk", s.ep + 1) ELSE AfterBulk(s)

\* the bulk 200 response was processed: all_positions.extend(positions); break
BulkBreak(s) ==
    BulkNextEndpoint([s EXCEPT !.all_positions = @ \o s.positions])

\* a variant in which a failing endpoint ends the whole bulk call with []
BulkFailed_Aborts(s) ==
    AfterBulk([s EXCEPT !.failed = @ \cup {endpoints[s.ep]}, !.all_positions = <<>>])

\* the bulk endpoint gave nothing: attempts exhausted, or processing raised
BulkFailed(s) ==
    BulkNextEndpoint([s EXCEPT !.failed = @ \cup {endpoints[s.ep]}])

\* _get_spot_data returned; _get_earn_data begins with Strategy A
EnterEarn(s) ==
    StartLoop([s EXCEPT !.all_positions = <<>>, !.earn_data = <<>>], "bulk", 1)

\* a variant that lets the exception out of _get_spot_data
SpotFailed_Raises(s) ==
    [s EXCEPT !.failed = @ \cup {"Spot"}, !.outcome = "raised", !.pc = "done"]

\* _get_spot_data's except: return []
SpotFailed(s) ==
    EnterEarn([s EXCEPT !.spot_data = <<>>, !.failed = @ \cup {"Spot"}])

\* one row of the response in hand is done
RowDone(s) == [s EXCEPT !.rowsLeft = @ - 1]

\* processing the row raised: the rows after it are never looked at
RowRaised(s) == [s EXCEPT !.rowsLeft = 0]

\* TRUE iff the last row gone through raised
Raised(s) == s.rowlog # <<>> /\ s.rowlog[Len(s.rowlog)].raised

(***************************************************************************)
(* What the exchange may answer.                                           *)
(***************************************************************************)
\* a balance of get_account(); bad: the field whose read or float() raises
SpotRows ==
    {r \in [asset : SpotAssets, free : 0..MaxAmount, locked : 0..MaxAmount,
            bad : {"none", "asset", "amount"}] : r.free + r.locked <= MaxAmount}

\* a row of a Simple Earn position response
EarnRows ==
    [asset : Assets, amount : 0..MaxAmount, rate : Rates,
     bad : {"none", "asset", "amount", "rate"}]

\* a row of the response to a targeted request: its asset field is not read
TgtRows ==
    [amount : 0..MaxAmount, rate : Rates, bad : {"none", "amount", "rate"}]

(***************************************************************************)
(* _get_spot_data                                                          *)
(***************************************************************************)
\* self.client.get_account() raised, or answered n balances
SpotCallStep(s, ok, n) ==
    LET s1 == [s EXCEPT !.rowlog = <<>>, !.spot_data = <<>>]
    IN  IF ~ok THEN SpotFailed(s1)
        ELSE IF n = 0 THEN EnterEarn(s1)
        ELSE [s1 EXCEPT !.pc = "spot_rows", !.rowsLeft = n, !.rowsSeen = @ + n]

\* the body of "for balance in balances"
SpotRowStep(s, t, row, q, av) ==
    LET total == row.free + row.locked
        r == GetCurrentPrice(s.price_cache, t, row.asset, Tickers(q, row.asset, av))
    IN  IF row.bad = "asset"
        THEN RowRaised([s EXCEPT !.rowlog = Append(@, BalanceEntry(row, "", 0, FALSE, 0, TRUE))])
        ELSE IF StartsWithLD(row.asset)
        THEN RowDone([s EXCEPT !.rowlog = Append(@, BalanceEntry(row, row.asset, 0, FALSE, 0, FALSE))])
        ELSE IF row.bad = "amount"
        THEN RowRaised([s EXCEPT !.rowlog = Append(@, BalanceEntry(row, row.asset, 0, FALSE, 0, TRUE))])
        ELSE IF HasBalance(total)
        THEN RowDone([s EXCEPT
                !.price_cache = r.cache,
                !.spot_data = IF Priced(r.price)
                              THEN Append(@, Holding(row.asset, total, r.price, "Spot", "Spot", 0))
                              ELSE @,
                !.rowlog = Append(@, BalanceEntry(row, row.asset, total, TRUE, r.price, FALSE))])
        ELSE RowDone([s EXCEPT !.rowlog = Append(@, BalanceEntry(row, row.asset, total, FALSE, 0, FALSE))])

\* the loop over the balances is left: return spot_data, or the except's []
SpotEndStep(s) ==
    LET s1 == [s EXCEPT !.rowlog = <<>>]
    IN  IF Raised(s) THEN SpotFailed(s1) ELSE EnterEarn(s1)

(***************************************************************************)
(* The two retry loops                                                     *)
(***************************************************************************)
\* a variant that starts the attempts over after a failure
LoopAdvance_StartOver(s, n, stage) ==
    [s EXCEPT !.attempt = 0, !.reqs = 0, !.pc = stage]

\* the loop goes to its next attempt, or ends without a break
LoopAdvance(s, n, stage) ==
    IF MoreAttempts(s.attempt, n)
    THEN [s EXCEPT !.attempt = @ + 1, !.pc = stage]
    ELSE IF stage = "bulk" THEN BulkFailed(s) ELSE TgtFailed(s)

\* a non-200 status or a RequestException: sleep unless this was the last attempt
AfterFailedAttempt(s, n, stage) ==
    IF SleepBeforeRetry(s.attempt, n)
    THEN [s EXCEPT !.pc = IF stage = "bulk" THEN "bulk_sleep" ELSE "tgt_sleep"]
    ELSE LoopAdvance(s, n, stage)

\* time.sleep() returned
SleepStep(s, n, stage) == LoopAdvance([s EXCEPT !.slept = TRUE], n, stage)

(***************************************************************************)
(* _get_all_simple_earn_positions                                          *)
(***************************************************************************)
\* requests.get() on endpoints[ep]; jre: response.json() raises a RequestException
BulkRequestStep(s, resp, n, jre) ==
    LET s1 == [s EXCEPT !.reqs = @ + 1, !.lastResp = resp, !.slept = FALSE,
                        !.rowlog = <<>>, !.positions = <<>>]
    IN  CASE resp \in {"neterr", "non200"} -> AfterFailedAttempt(s1, BulkAttempts, "bulk")
          [] resp = "badbody" -> IF jre THEN AfterFailedAttempt(s1, BulkAttempts, "bulk")
                                        ELSE BulkFailed(s1)
          [] resp = "ok" -> IF n = 0 THEN BulkBreak(s1)
                            ELSE [s1 EXCEPT !.pc = "bulk_rows", !.rowsLeft = n,
                                            !.rowsSeen = @ + n]

\* the body of "for pos in data['rows']" of the bulk call
BulkRowStep(s, t, row, q, av) ==
    LET r == GetCurrentPrice(s.price_cache, t, row.asset, Tickers(q, row.asset, av))
        product_type == endpoints[s.ep]
    IN  IF row.bad = "asset"
        THEN RowRaised([s EXCEPT !.rowlog = Append(@, LogEntry("", 0, FALSE, 0, TRUE))])
        ELSE IF row.bad = "amount"
        THEN RowRaised([s EXCEPT !.rowlog = Append(@, LogEntry(row.asset, 0, FALSE, 0, TRUE))])
        ELSE IF row.amount > 0
        THEN IF Priced(r.price) /\ row.bad = "rate"
             THEN RowRaised([s EXCEPT
                     !.price_cache = r.cache,
                     !.rowlog = Append(@, LogEntry(row.asset, row.amount, TRUE, r.price, TRUE))])
             ELSE RowDone([s EXCEPT
                     !.price_cache = r.cache,
                     !.positions = IF Priced(r.price)
                                   THEN Append(@, Holding(row.asset, row.amount, r.price,
                                                          "Simple Earn", Title(product_type),
                                                          row.rate * 100))
                                   ELSE @,
                     !.rowlog = Append(@, LogEntry(row.asset, row.amount, TRUE, r.price, FALSE))])
        ELSE RowDone([s EXCEPT !.rowlog = Append(@, LogEntry(row.asset, row.amount, FALSE, 0, FALSE))])

\* the loop over the rows is left: extend all_positions and break, or the
\* except of the endpoint loop
BulkEndStep(s) ==
    LET s1 == [s EXCEPT !.rowlog = <<>>]
    IN  IF Raised(s) THEN BulkFailed(s1) ELSE BulkBreak(s1)

(***************************************************************************)
(* _get_simple_earn_asset_positions(asset)                                 *)
(***************************************************************************)
\* requests.get() on endpoints[ep] with params asset = missing_assets[mi]
TgtRequestStep(s, resp, n, jre) ==
    LET s1 == [s EXCEPT !.reqs = @ + 1, !.lastResp = resp, !.slept = FALSE,
                        !.rowlog = <<>>, !.asked = @ \cup {s.missing_assets[s.mi]}]
    IN  CASE resp \in {"neterr", "non200"} -> AfterFailedAttempt(s1, TargetAttempts, "tgt")
          [] resp = "badbody" -> IF jre THEN AfterFailedAttempt(s1, TargetAttempts, "tgt")
                                        ELSE TgtFailed(s1)
          [] resp = "ok" -> IF n = 0 THEN TgtBreak(s1)
                            ELSE [s1 EXCEPT !.pc = "tgt_rows", !.rowsLeft = n,
                                            !.rowsSeen = @ + n]

\* the body of "for pos in data['rows']" of the targeted call; the row's own
\* asset field is not read, the holding takes the asset asked for
TgtRowStep(s, t, row, q, av) ==
    LET asset == s.missing_assets[s.mi]
        r == GetCurrentPrice(s.price_cache, t, asset, Tickers(q, asset, av))
        product_type == endpoints[s.ep]
    IN  IF row.bad = "amount"
        THEN RowRaised([s EXCEPT !.rowlog = Append(@, LogEntry(asset, 0, FALSE, 0, TRUE))])
        ELSE IF row.amount > 0
        THEN IF Priced(r.price) /\ row.bad = "rate"
             THEN RowRaised([s EXCEPT
                     !.price_cache = r.cache,
                     !.rowlog = Append(@, LogEntry(asset, row.amount, TRUE, r.price, TRUE))])
             ELSE RowDone([s EXCEPT
                     !.price_cache = r.cache,
                     !.positions = IF Priced(r.price)
                                   THEN Append(@, Holding(asset, row.amount, r.price,
                                                          "Simple Earn", Title(product_type),
                                                          row.rate * 100))
                                   ELSE @,
                     !.rowlog = Append(@, LogEntry(asset, row.amount, TRUE, r.price, FALSE))])
        ELSE RowDone([s EXCEPT !.rowlog = Append(@, LogEntry(asset, row.amount, FALSE, 0, FALSE))])

\* the loop over the rows is left: break, or the except of the endpoint loop
TgtEndStep(s) ==
    LET s1 == [s EXCEPT !.rowlog = <<>>]
    IN  IF Raised(s) THEN TgtFailed(s1) ELSE TgtBreak(s1)

(***************************************************************************)
(* GoogleSheetsManager: the Portfolio, Overview and Grafico tabs.  A cell  *)
(* holds a string, "" when it is empty; numbers and timestamps written by  *)
(* the update are named, not computed.                                     *)
(***************************************************************************)
\* Config.HEADERS: columns A..L of the Portfolio tab
HEADERS ==
    <<"Asset", "Quantita", "Prezzo Medio (USDT)", "Prezzo Attuale (USDT)",
      "Valore Attuale (USDT)", "Investito Totale (USDT)", "PnL %", "PnL USDT",
      "Fonte", "Tipo", "APR %", "Ultimo Aggiornamento">>

Columns == 1..Len(HEADERS)

\* the last row of the ranges _clear_sheet clears
LastRow == 1000

\* column C, the average price the user types in
ColC == CHOOSE c \in Columns : HEADERS[c] = "Prezzo Medio (USDT)"

\* the rows of the Portfolio tab the model keeps
SheetRows == MaxCycleRows + 4
Rows == 1..SheetRows

\* a tab in which the user has typed the header of column C and an average
\* price into the m rows below it
UserSheet(m) ==
    [r \in Rows |-> [c \in Columns |->
        IF c # ColC THEN ""
        ELSE IF r = 1 THEN HEADERS[ColC]
        ELSE IF r <= m + 1 THEN "avg" ELSE ""]]

\* values().clear(range): columns c1..c2 of rows r1..r2
ClearRange(sh, c1, c2, r1, r2) ==
    [r \in Rows |-> [c \in Columns |->
        IF c1 <= c /\ c <= c2 /\ r1 <= r /\ r <= r2 THEN "" ELSE sh[r][c]]]

\* values().update(range, body): values[i][j] goes to row r1 + i - 1, column
\* c1 + j - 1; an empty string empties the cell
UpdateRange(sh, c1, r1, values) ==
    [r \in Rows |-> [c \in Columns |->
        LET i == r - r1 + 1
            j == c - c1 + 1
        IN  IF i \in DOMAIN values /\ j \in DOMAIN values[i]
            THEN values[i][j] ELSE sh[r][c]]]

\* _clear_sheet after k of its three clear calls
ClearSheet(sh, k) ==
    LET a == IF k >= 1 THEN ClearRange(sh, 1, 1, 2, LastRow) ELSE sh
        b == IF k >= 2 THEN ClearRange(a, 2, 2, 2, LastRow) ELSE a
    IN  IF k >= 3 THEN ClearRange(b, 4, 12, 2, LastRow) ELSE b

\* _write_headers after k of its two update calls
WriteHeaders(sh, k) ==
    LET a == IF k >= 1 THEN UpdateRange(sh, 1, 1, <<SubSeq(HEADERS, 1, 2)>>) ELSE sh
    IN  IF k >= 2 THEN UpdateRange(a, 4, 1, <<SubSeq(HEADERS, 4, Len(HEADERS))>>) ELSE a

\* _get_existing_prices: column C of the sheet row below the header that
\* holds item i; read_ok is FALSE when the read raised and {} came back
ExistingPrice(sh, read_ok, i) ==
    IF read_ok /\ i + 1 \in Rows THEN sh[i + 1][ColC] ELSE ""

\* _write_data after k of its two update calls
WriteData(sh, data, read_ok, k) ==
    LET values_ab == [i \in DOMAIN data |-> <<data[i].asset, "quantity">>]
        values_dl == [i \in DOMAIN data |->
            LET priced == ExistingPrice(sh, read_ok, i) # ""
            IN  <<"current_price", "current_value",
                  IF priced THEN "total_invested" ELSE "",
                  IF priced THEN "pnl_percentage" ELSE "",
                  IF priced THEN "pnl_usdt" ELSE "",
                  data[i].source, data[i].type, "apr", "current_time">>]
        a == IF k >= 1 THEN UpdateRange(sh, 1, 2, values_ab) ELSE sh
    IN  IF data = <<>> THEN sh
        ELSE IF k >= 2 THEN UpdateRange(a, 4, 2, values_dl) ELSE a

\* _add_summary: the row handed to the update of A{n+3}:L{n+3}
summary_row ==
    <<"TOTALE", "", "", "", "total_value", "total_invested",
      "total_pnl_percentage", "total_pnl", "Spot | Earn", "", "", "current_time">>

\* _add_summary after k of its one update call
AddSummary(sh, data, k) ==
    IF data = <<>> \/ k = 0 THEN sh
    ELSE UpdateRange(sh, 1, Len(data) + 3, <<summary_row>>)

\* rows A:E of the Overview tab
OverviewRows == MaxRuns + 2
BlankRow == [kind |-> "blank", time |-> 0]
HeaderRow == [kind |-> "header", time |-> 0]
EmptyTab == [r \in 1..OverviewRows |-> BlankRow]

\* values().get(range): the rows down to the last one that is not empty
ValuesOf(tab) ==
    LET used == {r \in DOMAIN tab : tab[r] # BlankRow}
    IN  IF used = {} THEN <<>>
        ELSE [r \in 1..(CHOOSE m \in used : \A u \in used : u <= m) |-> tab[r]]

\* _write_overview_headers: A1:E1 is written, whatever is there
WriteOverviewHeaders(tab) == [tab EXCEPT ![1] = HeaderRow]

\* a variant that writes the new row right below the header
AppendOverviewRow_Top(tab, t) ==
    [tab EXCEPT ![2] = [kind |-> "row", time |-> t]]

\* _append_overview_row: next_row = len(existing_rows) + 1
AppendOverviewRow(tab, t) ==
    LET next_row == Len(ValuesOf(tab)) + 1
    IN  [tab EXCEPT ![next_row] = [kind |-> "row", time |-> t]]

\* _update_overview after k of: headers written, row appended, tab formatted
UpdateOverview(tab, t, k) ==
    LET a == IF k >= 1 THEN WriteOverviewHeaders(tab) ELSE tab
    IN  IF k >= 2 THEN AppendOverviewRow(a, t) ELSE a

\* _update_chart: the rows of Overview whose value and invested are numbers
ChartData(overview_data) == SelectSeq(overview_data, LAMBDA row : row.kind = "row")

\* _write_chart_data after k of: A:C cleared, headers written, data written
WriteChartData(ch, chart_data, k) ==
    IF k = 0 THEN ch
    ELSE IF k = 1 THEN <<>>
    ELSE IF k = 2 \/ chart_data = <<>> THEN <<HeaderRow>>
    ELSE <<HeaderRow>> \o chart_data

(***************************************************************************)
(* The state machine                                                       *)
(***************************************************************************)
\* last before any call; hadEntry, cached, cachedAt: the asset's cache entry
\* when the call was made; at: the time of the call; n: calls so far
NoCall == [asset |-> "", hadEntry |-> FALSE, cached |-> 0, cachedAt |-> 0,
           at |-> 0, tk |-> [direct |-> Fail, hop1 |-> Fail, hop2 |-> Fail],
           price |-> 0, calls |-> <<>>, n |-> 0]

\* Config as read from the environment: TRUE iff the setting is set and not
\* empty; credentials: GOOGLE_SHEETS_CREDENTIALS_FILE or GOOGLE_SHEETS_CREDENTIALS
Configs ==
    [api_key : BOOLEAN, secret_key : BOOLEAN, sheet_id : BOOLEAN,
     credentials : BOOLEAN]

AllSet == [api_key |-> TRUE, secret_key |-> TRUE, sheet_id |-> TRUE,
           credentials |-> TRUE]

\* a variant that looks at the Google Sheets settings only
ConfigValidate_SheetsOnly(c) == c.sheet_id /\ c.credentials

\* Config.validate
ConfigValidate(c) ==
    /\ c.api_key /\ c.secret_key /\ c.sheet_id
    /\ c.credentials

\* a variant that lets an empty list through
NoData_Never(data) == FALSE

\* "if not portfolio_data"
NoData(data) == data = <<>>

EmptyCache == [a \in {} |-> [price |-> 0, time |-> 0]]

InitProgram ==
    /\ pc = "idle"
    /\ now = 0
    /\ ticks = 0
    /\ quote = Quote0
    /\ moves = 0
    /\ price_cache = EmptyCache
    /\ last = NoCall
    /\ spot_data = <<>>
    /\ all_positions = <<>>
    /\ positions = <<>>
    /\ earn_data = <<>>
    /\ missing_assets = <<>>
    /\ mi = 0
    /\ ep = 0
    /\ attempt = 0
    /\ rowsLeft = 0
    /\ rowsSeen = 0
    /\ rowlog = <<>>
    /\ reqs = 0
    /\ lastResp = "none"
    /\ slept = FALSE
    /\ tgt_positions = <<>>
    /\ earn_result = <<>>
    /\ asked = {}
    /\ failed = {}
    /\ tgtOk = FALSE
    /\ tgtFailed = {}
    /\ result = <<>>
    /\ outcome = "none"
    /\ mainpc = "start"
    /\ main_log = {}

valVars == <<items, valid_data, validated>>
mainVars == <<config, mainpc, main_log>>
sheetVars == <<sheet_data, sheet, overview, chart, upc, started, returned>>

\* the spreadsheet before the first run: Overview and Grafico are empty
InitSheets(sh) ==
    /\ sheet = sh
    /\ overview = EmptyTab
    /\ chart = <<>>
    /\ sheet_data = <<>>
    /\ upc = "idle"
    /\ started = 0
    /\ returned = 0

\* the environment at import: any of the settings may be unset
Init ==
    /\ InitProgram
    /\ InitSheets(UserSheet(SheetRows - 1))
    /\ config \in Configs
    /\ items = <<>>
    /\ valid_data = <<>>
    /\ validated = FALSE

envVars == <<now, ticks, quote, moves, last>>

\* how many rows the next response may hold
RowCounts == {n \in 0..MaxRows : rowsSeen + n <= MaxCycleRows}

\* main calls binance.get_portfolio_data()
StartCycle ==
    /\ mainpc = "fetch"
    /\ pc = "idle"
    /\ Becomes([Cur EXCEPT !.pc = "spot"])
    /\ main_log' = main_log \cup {"get_portfolio_data"}
    /\ UNCHANGED <<envVars, valVars, config, mainpc, sheetVars>>

SpotCall ==
    /\ pc = "spot"
    /\ \E ok \in BOOLEAN, n \in RowCounts : Becomes(SpotCallStep(Cur, ok, n))
    /\ UNCHANGED <<envVars, valVars, mainVars, sheetVars>>

SpotRow ==
    /\ pc = "spot_rows"
    /\ rowsLeft > 0
    /\ \E row \in SpotRows, av \in Avail :
          /\ row.asset \notin AssetsOf(rowlog)
          /\ Becomes(SpotRowStep(Cur, now, row, quote, av))
    /\ UNCHANGED <<envVars, valVars, mainVars, sheetVars>>

SpotEnd ==
    /\ pc = "spot_rows"
    /\ rowsLeft = 0
    /\ Becomes(SpotEndStep(Cur))
    /\ UNCHANGED <<envVars, valVars, mainVars, sheetVars>>

BulkRequest ==
    /\ pc = "bulk"
    /\ \E resp \in Responses, n \in RowCounts, jre \in BOOLEAN :
          Becomes(BulkRequestStep(Cur, resp, n, jre))
    /\ UNCHANGED <<envVars, valVars, mainVars, sheetVars>>

BulkSleep ==
    /\ pc = "bulk_sleep"
    /\ Becomes(SleepStep(Cur, BulkAttempts, "bulk"))
    /\ UNCHANGED <<envVars, valVars, mainVars, sheetVars>>

BulkRow ==
    /\ pc = "bulk_rows"
    /\ rowsLeft > 0
    /\ \E row \in EarnRows, av \in Avail :
          Becomes(BulkRowStep(Cur, now, row, quote, av))
    /\ UNCHANGED <<envVars, valVars, mainVars, sheetVars>>

BulkEnd ==
    /\ pc = "bulk_rows"
    /\ rowsLeft = 0
    /\ Becomes(BulkEndStep(Cur))
    /\ UNCHANGED <<envVars, valVars, mainVars, sheetVars>>

TgtRequest ==
    /\ pc = "tgt"
    /\ \E resp \in Responses, n \in RowCounts, jre \in BOOLEAN :
          Becomes(TgtRequestStep(Cur, resp, n, jre))
    /\ UNCHANGED <<envVars, valVars, mainVars, sheetVars>>

TgtSleep ==
    /\ pc = "tgt_sleep"
    /\ Becomes(SleepStep(Cur, TargetAttempts, "tgt"))
    /\ UNCHANGED <<envVars, valVars, mainVars, sheetVars>>

TgtRow ==
    /\ pc = "tgt_rows"
    /\ rowsLeft > 0
    /\ \E row \in TgtRows, av \in Avail :
          Becomes(TgtRowStep(Cur, now, row, quote, av))
    /\ UNCHANGED <<envVars, valVars, mainVars, sheetVars>>

TgtEnd ==
    /\ pc = "tgt_rows"
    /\ rowsLeft = 0
    /\ Becomes(TgtEndStep(Cur))
    /\ UNCHANGED <<envVars, valVars, mainVars, sheetVars>>

\* main, step 1: Config.validate()
MainValidate ==
    /\ mainpc = "start"
    /\ mainpc' = IF ConfigValidate(config) THEN "init" ELSE "False"
    /\ Becomes(Cur)
    /\ UNCHANGED <<envVars, valVars, config, main_log, sheetVars>>

\* main, step 2: BinanceManager() and GoogleSheetsManager(); a constructor
\* that raises ends main in its except
MainInit ==
    /\ mainpc = "init"
    /\ \E client_ok, service_ok \in BOOLEAN :
          /\ main_log' = main_log \cup {"Client"}
                             \cup (IF client_ok THEN {"service"} ELSE {})
          /\ mainpc' = IF client_ok /\ service_ok THEN "test" ELSE "False"
    /\ Becomes(Cur)
    /\ UNCHANGED <<envVars, valVars, config, sheetVars>>

\* main, step 3: binance.test_connection(), then sheets.test_connection()
MainTest ==
    /\ mainpc = "test"
    /\ \E binance_ok, sheets_ok \in BOOLEAN :
          /\ main_log' = main_log \cup {"binance.test_connection"}
                             \cup (IF binance_ok
                                   THEN {"binance connected", "sheets.test_connection"}
                                   ELSE {})
                             \cup (IF binance_ok /\ sheets_ok
                                   THEN {"sheets connected"} ELSE {})
          /\ mainpc' = IF binance_ok /\ sheets_ok THEN "fetch" ELSE "False"
    /\ Becomes(Cur)
    /\ UNCHANGED <<envVars, valVars, config, sheetVars>>

\* get_portfolio_data has returned or raised: its locals and those of the
\* fetches are gone, the manager keeps its price cache
BackInMain(s) ==
    [s EXCEPT !.pc = "idle", !.spot_data = <<>>, !.all_positions = <<>>,
              !.positions = <<>>, !.earn_data = <<>>, !.missing_assets = <<>>,
              !.mi = 0, !.ep = 0, !.attempt = 0, !.rowsLeft = 0, !.rowsSeen = 0,
              !.rowlog = <<>>, !.reqs = 0, !.lastResp = "none", !.slept = FALSE,
              !.tgt_positions = <<>>, !.earn_result = <<>>, !.asked = {},
              !.failed = {}, !.tgtOk = FALSE, !.tgtFailed = {},
              !.result = <<>>, !.outcome = "none"]

\* main after get_portfolio_data: an exception or an empty list ends it,
\* otherwise sheets.update_portfolio(portfolio_data) is called
MainFinish ==
    /\ mainpc = "fetch"
    /\ pc = "done"
    /\ IF outcome = "raised" \/ NoData(result)
       THEN /\ mainpc' = "False"
            /\ UNCHANGED <<main_log, sheet_data, upc, started>>
       ELSE /\ main_log' = main_log \cup {"update_portfolio"}
            /\ mainpc' = "update"
            /\ sheet_data' = result
            /\ upc' = "clear"
            /\ started' = started + 1
    /\ Becomes(BackInMain(Cur))
    /\ UNCHANGED <<envVars, valVars, config, sheet, overview, chart, returned>>

\* update_portfolio goes on to its next step or returns, and main returns
\* True; or its except re-raises, and main returns False
UpdateGoes(done, next) ==
    /\ upc' = IF done THEN next ELSE "idle"
    /\ mainpc' = IF ~done THEN "False" ELSE IF next = "idle" THEN "True" ELSE "update"
    /\ returned' = IF done /\ next = "idle" THEN returned + 1 ELSE returned

\* update_portfolio, step 1: _clear_sheet(); k of its calls go through
UpdateClearSheet ==
    /\ mainpc = "update"
    /\ upc = "clear"
    /\ \E k \in 0..3 :
          /\ sheet' = ClearSheet(sheet, k)
          /\ UpdateGoes(k = 3, "headers")
    /\ Becomes(Cur)
    /\ UNCHANGED <<envVars, valVars, config, main_log, sheet_data, overview,
                   chart, started>>

\* update_portfolio, step 2: _write_headers()
UpdateWriteHeaders ==
    /\ mainpc = "update"
    /\ upc = "headers"
    /\ \E k \in 0..2 :
          /\ sheet' = WriteHeaders(sheet, k)
          /\ UpdateGoes(k = 2, "data")
    /\ Becomes(Cur)
    /\ UNCHANGED <<envVars, valVars, config, main_log, sheet_data, overview,
                   chart, started>>

\* update_portfolio, step 3: _write_data(portfolio_data)
UpdateWriteData ==
    /\ mainpc = "update"
    /\ upc = "data"
    /\ \E read_ok \in BOOLEAN, k \in 0..2 :
          /\ sheet' = WriteData(sheet, sheet_data, read_ok, k)
          /\ UpdateGoes(NoData(sheet_data) \/ k = 2, "summary")
    /\ Becomes(Cur)
    /\ UNCHANGED <<envVars, valVars, config, main_log, sheet_data, overview,
                   chart, started>>

\* update_portfolio, step 4: _add_summary(portfolio_data)
UpdateAddSummary ==
    /\ mainpc = "update"
    /\ upc = "summary"
    /\ \E k \in 0..1 :
          /\ sheet' = AddSummary(sheet, sheet_data, k)
          /\ UpdateGoes(NoData(sheet_data) \/ k = 1, "formatting")
    /\ Becomes(Cur)
    /\ UNCHANGED <<envVars, valVars, config, main_log, sheet_data, overview,
                   chart, started>>

\* update_portfolio, step 5: _apply_formatting(); it changes formats, no cell
\* value, and catches its own exceptions
UpdateApplyFormatting ==
    /\ mainpc = "update"
    /\ upc = "formatting"
    /\ UpdateGoes(TRUE, "overview")
    /\ Becomes(Cur)
    /\ UNCHANGED <<envVars, valVars, config, main_log, sheet_data, sheet,
                   overview, chart, started>>

\* update_portfolio, step 6: _update_overview(portfolio_data)
UpdateOverviewTab ==
    /\ mainpc = "update"
    /\ upc = "overview"
    /\ \E k \in 0..3 :
          /\ overview' = UpdateOverview(overview, now, k)
          /\ UpdateGoes(k = 3, "chart")
    /\ Becomes(Cur)
    /\ UNCHANGED <<envVars, valVars, config, main_log, sheet_data, sheet,
                   chart, started>>

\* update_portfolio, step 7: _update_chart(); a failed read of Overview is
\* taken for an empty tab, and then nothing is written
UpdateChartTab ==
    /\ mainpc = "update"
    /\ upc = "chart"
    /\ \E ensure_ok, read_ok, format_ok \in BOOLEAN, k \in 0..3 :
          LET overview_data == IF read_ok THEN ValuesOf(overview) ELSE <<>>
          IN  IF ~ensure_ok
              THEN chart' = chart /\ UpdateGoes(FALSE, "idle")
              ELSE IF overview_data = <<>>
              THEN chart' = chart /\ UpdateGoes(TRUE, "idle")
              ELSE /\ chart' = WriteChartData(chart, ChartData(overview_data), k)
                   /\ UpdateGoes(k = 3 /\ format_ok, "idle")
    /\ Becomes(Cur)
    /\ UNCHANGED <<envVars, valVars, config, main_log, sheet_data, sheet,
                   overview, started>>

\* main: one aggregation cycle, during which quotes and clock stand still
Next ==
    \/ MainValidate
    \/ MainInit
    \/ MainTest
    \/ MainFinish
    \/ UpdateClearSheet
    \/ UpdateWriteHeaders
    \/ UpdateWriteData
    \/ UpdateAddSummary
    \/ UpdateApplyFormatting
    \/ UpdateOverviewTab
    \/ UpdateChartTab
    \/ StartCycle
    \/ SpotCall
    \/ SpotRow
    \/ SpotEnd
    \/ BulkRequest
    \/ BulkSleep
    \/ BulkRow
    \/ BulkEnd
    \/ TgtRequest
    \/ TgtSleep
    \/ TgtRow
    \/ TgtEnd

Spec == Init /\ [][Next]_vars

(***************************************************************************)
(* _get_current_price called on its own, any number of times, while the    *)
(* clock and the quotes move.                                              *)
(***************************************************************************)
\* self._get_current_price(asset)
Resolve ==
    /\ pc = "idle"
    /\ last.n < MaxResolves
    /\ \E asset \in Assets, av \in Avail :
          LET tk == Tickers(quote, asset, av)
              r == GetCurrentPrice(price_cache, now, asset, tk)
          IN  /\ price_cache' = r.cache
              /\ last' = [asset |-> asset,
                          hadEntry |-> asset \in DOMAIN price_cache,
                          cached |-> IF asset \in DOMAIN price_cache
                                     THEN price_cache[asset].price ELSE 0,
                          cachedAt |-> IF asset \in DOMAIN price_cache
                                       THEN price_cache[asset].time ELSE 0,
                          at |-> now, tk |-> tk, price |-> r.price,
                          calls |-> r.calls, n |-> last.n + 1]
    /\ UNCHANGED <<now, ticks, quote, moves, valVars, mainVars, sheetVars>>
    /\ Becomes([Cur EXCEPT !.price_cache = price_cache'])

\* the clock moves on
Tick ==
    /\ ticks < MaxTicks
    /\ \E d \in Delays : now' = now + d
    /\ ticks' = ticks + 1
    /\ Becomes(Cur)
    /\ UNCHANGED <<quote, moves, last, valVars, mainVars, sheetVars>>

\* a quote moves
MarketMove ==
    /\ moves < MaxMoves
    /\ \E a \in Assets :
          \/ quote' = [quote EXCEPT !.usdt[a] = @ + 1]
          \/ quote' = [quote EXCEPT !.btc[a] = @ + 1]
    /\ moves' = moves + 1
    /\ Becomes(Cur)
    /\ UNCHANGED <<now, ticks, last, valVars, mainVars, sheetVars>>

NextPrice ==
    \/ Resolve
    \/ Tick
    \/ MarketMove

\* a manager constructed under a complete configuration
InitPrice ==
    /\ InitProgram
    /\ InitSheets(UserSheet(SheetRows - 1))
    /\ config = AllSet
    /\ items = <<>>
    /\ valid_data = <<>>
    /\ validated = FALSE

SpecPrice == InitPrice /\ [][NextPrice]_vars

(***************************************************************************)
(* Step 3 of get_portfolio_data applied to any list of dicts.              *)
(***************************************************************************)
InitValidate ==
    /\ InitProgram
    /\ InitSheets(UserSheet(SheetRows - 1))
    /\ config = AllSet
    /\ items \in ItemLists
    /\ valid_data = <<>>
    /\ validated = FALSE

\* lines 121-138 run on items
Validate ==
    /\ ~validated
    /\ valid_data' = ValidData(items)
    /\ validated' = TRUE
    /\ Becomes(Cur)
    /\ UNCHANGED <<envVars, mainVars, items, sheetVars>>

NextValidate == Validate

SpecValidate == InitValidate /\ [][NextValidate]_vars

(***************************************************************************)
(* update_portfolio run after run against one spreadsheet, whatever the    *)
(* user has typed into column C.                                           *)
(***************************************************************************)
\* the lists main hands over: one to MaxCycleRows holdings, largest first
PortfolioLists ==
    {[i \in 1..n |->
        LET asset == IF i = 1 THEN "BTC" ELSE IF i = 2 THEN "ETH" ELSE "XRP"
        IN  Holding(asset, Unit * (n + 1 - i), Quote0.usdt[asset], "Spot", "Spot", 0)]
     : n \in 1..MaxCycleRows}

InitSheet ==
    /\ InitProgram
    /\ \E m \in 0..(SheetRows - 1) : InitSheets(UserSheet(m))
    /\ config = AllSet
    /\ items = <<>>
    /\ valid_data = <<>>
    /\ validated = FALSE

\* one more run of main, up to its call of update_portfolio(portfolio_data)
NewRun ==
    /\ mainpc \in {"start", "True", "False"}
    /\ started < MaxRuns
    /\ \E data \in PortfolioLists, d \in {0, 1} :
          /\ sheet_data' = data
          /\ now' = now + d
    /\ mainpc' = "update"
    /\ upc' = "clear"
    /\ started' = started + 1
    /\ main_log' = {"Client", "service", "binance.test_connection",
                    "binance connected", "sheets.test_connection",
                    "sheets connected", "get_portfolio_data", "update_portfolio"}
    /\ Becomes(Cur)
    /\ UNCHANGED <<ticks, quote, moves, last, valVars, config, sheet, overview,
                   chart, returned>>

NextSheet ==
    \/ NewRun
    \/ UpdateClearSheet
    \/ UpdateWriteHeaders
    \/ UpdateWriteData
    \/ UpdateAddSummary
    \/ UpdateApplyFormatting
    \/ UpdateOverviewTab
    \/ UpdateChartTab

SpecSheet == InitSheet /\ [][NextSheet]_vars

(***************************************************************************)
(* Claims                                                                  *)
(***************************************************************************)
\* the yield-product fetch failed entirely: both bulk endpoints failed and no
\* targeted request was answered and processed
EarnFailedEntirely == {"FLEXIBLE", "LOCKED"} \subseteq failed /\ ~tgtOk

\* C1: every list returned by get_portfolio_data holds no two entries with
\* the same asset symbol, also when an asset is held in Spot and in Simple Earn.
C1_NoDuplicateAssets ==
    outcome = "returned" =>
        \A i, j \in DOMAIN result : i # j => result[i].asset # result[j].asset

\* C2: when the liquid-wallet fetch and the yield-product fetch both fail
\* entirely, get_portfolio_data raises and returns no list.
C2_TotalFailureRaises ==
    (outcome # "none" /\ "Spot" \in failed /\ EarnFailedEntirely) =>
        outcome = "raised"

\* C3: a cycle is all-or-nothing: a non-empty list is returned only if no
\* source and no bulk endpoint failed.
C3_AllOrNothing ==
    (outcome = "returned" /\ result # <<>>) => failed = {}

\* the indexes of seq whose asset does not occur before them
FirstIdx(seq) ==
    {i \in DOMAIN seq : \A j \in 1..(i - 1) : seq[j].asset # seq[i].asset}

\* the k-th smallest element of the set of numbers S
Nth(S, k) == CHOOSE i \in S : Cardinality({j \in S : j < i}) = k - 1

\* res is seq with, for every asset, only the first occurrence kept, in order
IsFirstOccurrences(res, seq) ==
    /\ Len(res) = Cardinality(FirstIdx(seq))
    /\ \A k \in DOMAIN res : res[k] = seq[Nth(FirstIdx(seq), k)]

\* the example of the claim: A = [BTC:1, ETH:2], B = [ETH:5, SOL:3]
ExampleA == <<Holding("BTC", 1, 1, "Simple Earn", "Flexible", 0),
              Holding("ETH", 2, 1, "Simple Earn", "Flexible", 0)>>
ExampleB == <<Holding("ETH", 5, 1, "Simple Earn", "Flexible", 0),
              Holding("SOL", 3, 1, "Simple Earn", "Locked", 0)>>
ExampleMerged == <<Holding("BTC", 1, 1, "Simple Earn", "Flexible", 0),
                   Holding("ETH", 2, 1, "Simple Earn", "Flexible", 0),
                   Holding("SOL", 3, 1, "Simple Earn", "Locked", 0)>>

\* C4: the list _get_earn_data returns is Strategy A's results followed by
\* Strategy B's with, for each asset, only the first occurrence kept and the
\* order of the kept entries preserved.
C4_EarnIsFirstOccurrences ==
    /\ outcome = "returned" =>
          IsFirstOccurrences(earn_result, all_positions \o tgt_positions)
    /\ RemoveDuplicates(ExampleA \o ExampleB) = ExampleMerged

\* C4 witness: the fetch returned and a duplicate was dropped
C4_Witness ==
    /\ outcome = "returned"
    /\ Len(earn_result) < Len(all_positions \o tgt_positions)
    /\ earn_result # <<>>

\* the first entry of seq for asset a
FirstOf(seq, a) == seq[CHOOSE i \in FirstIdx(seq) : seq[i].asset = a]

\* C5: Strategy B asks only for known assets that Strategy A did not report,
\* and only once Strategy A is over; an asset Strategy A reported stays in the
\* result as its Strategy A entry, once.
C5_TargetedOnlyPatchesGaps ==
    /\ pc \in {"idle", "spot", "spot_rows", "bulk", "bulk_sleep", "bulk_rows"} => asked = {}
    /\ asked \subseteq Range(known_assets) \ AssetsOf(all_positions)
    /\ AssetsOf(tgt_positions) \cap AssetsOf(all_positions) = {}
    /\ outcome = "returned" =>
          \A a \in AssetsOf(all_positions) :
              /\ Cardinality({k \in DOMAIN earn_result : earn_result[k].asset = a}) = 1
              /\ \E k \in DOMAIN earn_result : earn_result[k] = FirstOf(all_positions, a)

\* C5 witness: Strategy A reported one known asset, Strategy B asked for another
C5_Witness ==
    /\ asked # {}
    /\ AssetsOf(all_positions) \cap Range(known_assets) # {}
    /\ outcome = "returned"

\* C6: a call of _get_current_price that finds a cache entry younger than
\* 300 s returns the cached price and makes no ticker call.
C6_FreshCacheNoCall ==
    (last.n > 0 /\ last.hadEntry /\ last.at - last.cachedAt < 300) =>
        /\ last.price = last.cached
        /\ last.calls = <<>>

\* C6 witness: a later call finds an entry 299 s old, of a price the exchange
\* no longer quotes
C6_Witness ==
    /\ last.n > 1
    /\ last.hadEntry
    /\ last.at - last.cachedAt = 299
    /\ last.calls = <<>>
    /\ last.price # quote.usdt[last.asset]

\* the call found no entry young enough
LastMissed == last.n > 0 /\ ~(last.hadEntry /\ last.at - last.cachedAt < 300)

\* C7: when the direct lookup fails the two hops are tried: both succeed and
\* the price is their product, or one fails and 0.0 is returned; when the
\* direct lookup succeeds the hops are never tried.
C7_TwoHop ==
    LastMissed =>
        /\ last.tk.direct # Fail =>
              last.calls = <<"USDT">> /\ last.price = last.tk.direct
        /\ last.tk.direct = Fail =>
              /\ Len(last.calls) >= 2
              /\ last.calls[1] = "USDT" /\ last.calls[2] = "BTC"
              /\ (last.tk.hop1 # Fail /\ last.tk.hop2 # Fail) =>
                    last.price = last.tk.hop1 * last.tk.hop2
              /\ (last.tk.hop1 = Fail \/ last.tk.hop2 = Fail) => last.price = 0

\* C7 witness: the direct lookup failed and both hops answered
C7_Witness ==
    /\ LastMissed
    /\ last.tk.direct = Fail
    /\ last.tk.hop1 # Fail
    /\ last.tk.hop2 # Fail
    /\ last.price = last.tk.hop1 * last.tk.hop2
    /\ last.price \notin {last.tk.hop1, last.tk.hop2}

\* the holdings a fetch emits for the rows gone through: one for every row
\* whose price was looked up and came back positive
RECURSIVE Emitted(_, _, _, _)
Emitted(log, source, type, apr) ==
    IF log = <<>> THEN <<>>
    ELSE LET e == Head(log)
             rest == Emitted(Tail(log), source, type, apr)
         IN  IF e.looked /\ ~e.raised /\ e.price > 0
             THEN <<Holding(e.asset, e.quantity, e.price, source, type, apr)>> \o rest
             ELSE rest

AllHoldings ==
    Range(spot_data) \cup Range(positions) \cup Range(all_positions)
        \cup Range(earn_data) \cup Range(earn_result) \cup Range(result)

IsSuffix(suf, seq) ==
    /\ Len(suf) <= Len(seq)
    /\ suf = SubSeq(seq, Len(seq) - Len(suf) + 1, Len(seq))

\* C8: a price that does not resolve comes back as 0.0 and only drops its own
\* row: the row never raises, the rows after it are still gone through and
\* emitted if priced, and no holding has unit price 0.
C8_UnpricedRowOnlyDropped ==
    /\ \A h \in AllHoldings : h.current_price > 0
    /\ \A i \in DOMAIN rowlog :
          (rowlog[i].looked /\ rowlog[i].price <= 0) =>
              rowlog[i].price = 0 /\ ~rowlog[i].raised
    /\ (pc = "spot_rows" /\ ~Raised(Cur)) =>
          spot_data = Emitted(rowlog, "Spot", "Spot", 0)
    /\ pc = "bulk_rows" =>
          positions = Emitted(rowlog, "Simple Earn", Title(endpoints[ep]), 100)
    /\ pc = "tgt_rows" =>
          IsSuffix(Emitted(rowlog, "Simple Earn", Title(endpoints[ep]), 100), positions)

\* C8 witness: the first balance could not be priced, the second was emitted
C8_Witness ==
    /\ pc = "spot_rows"
    /\ Len(rowlog) = 2
    /\ rowlog[1].looked /\ rowlog[1].price = 0
    /\ rowlog[2].looked /\ rowlog[2].price > 0
    /\ Len(spot_data) = 1
    /\ spot_data[1].asset = rowlog[2].asset

\* C9: a retry loop sends at most 3 requests to a bulk endpoint and at most 2
\* to an endpoint for one asset.
C9_BoundedAttempts ==
    /\ pc \in {"bulk", "bulk_sleep"} => reqs < 3
    /\ pc = "bulk_rows" => reqs <= 3
    /\ pc \in {"tgt", "tgt_sleep"} => reqs < 2
    /\ pc = "tgt_rows" => reqs <= 2

\* C9 witness: the third request to a bulk endpoint was answered with rows
C9_Witness ==
    /\ pc = "bulk_rows"
    /\ reqs = 3
    /\ attempt = 2

\* C10: another attempt is made only after a network error or a non-200
\* status, with a delay before it; a 200 response ends the attempts; nothing
\* follows the last failed attempt.
C10_RetryOnlyOnFailure ==
    /\ (pc \in {"bulk", "tgt"} /\ attempt > 0) =>
          lastResp \in {"neterr", "non200"} /\ slept
    /\ pc = "bulk_sleep" =>
          lastResp \in {"neterr", "non200"} /\ attempt + 1 < 3
    /\ pc = "tgt_sleep" =>
          lastResp \in {"neterr", "non200"} /\ attempt + 1 < 2
    /\ pc \in {"bulk_rows", "tgt_rows"} => lastResp = "ok"

\* C11: every list get_portfolio_data returns is sorted by value, descending.
C11_SortedDescending ==
    outcome = "returned" =>
        \A i \in 1..(Len(result) - 1) :
            result[i].current_value >= result[i + 1].current_value

\* C11 witness: the Simple Earn holding, fetched last, is worth more than the
\* Spot holding and comes first
C11_Witness ==
    /\ outcome = "returned"
    /\ Len(result) = 2
    /\ result[1].source = "Simple Earn"
    /\ result[2].source = "Spot"
    /\ result[1].current_value > result[2].current_value

\* how often h occurs in seq
Count(seq, h) == Cardinality({i \in DOMAIN seq : seq[i] = h})

\* C12: no entry of a returned list is worth less than 1.0, and every fetched
\* holding worth 1.0 or more (all of them valid) is in the list, as often as
\* it was fetched.
C12_DustFilter ==
    outcome = "returned" =>
        /\ \A i \in DOMAIN result : result[i].current_value >= Unit
        /\ \A h \in Range(spot_data \o earn_result) :
              (h.quantity > 0 /\ h.current_price > 0 /\ h.current_value >= Unit) =>
                  Count(result, h) = Count(spot_data \o earn_result, h)

\* C12 witness: a holding worth exactly 1.0 is kept, one worth less is dropped
C12_Witness ==
    /\ outcome = "returned"
    /\ \E i \in DOMAIN result : result[i].current_value = Unit
    /\ \E h \in Range(spot_data \o earn_result) :
          h.current_value < Unit /\ h \notin Range(result)

\* what the claim says of a dict that is dropped
HasDefect(item) ==
    \/ \E f \in {"asset", "quantity", "current_price", "current_value"} :
          item[f] = Absent \/ item[f] = None
    \/ \E f \in {"quantity", "current_price", "current_value"} :
          item[f].kind # "num" \/ item[f].val <= 0

\* seq without the dicts that have a defect, in seq's order
RECURSIVE WithoutDefects(_)
WithoutDefects(seq) ==
    IF seq = <<>> THEN <<>>
    ELSE IF HasDefect(Head(seq)) THEN WithoutDefects(Tail(seq))
         ELSE <<Head(seq)>> \o WithoutDefects(Tail(seq))

\* C13: the validation drops exactly the dicts with a missing or None
\* required field or a non-numeric or non-positive quantity, price or value;
\* the others pass unchanged, in order.
C13_ValidationDropsExactlyInvalid ==
    validated => valid_data = WithoutDefects(items)

\* C13 witness: a dict with quantity -1 before a well-formed one; only the
\* second is kept
C13_Witness ==
    /\ validated
    /\ Len(items) = 2
    /\ items[1].quantity = Num(-1)
    /\ ~HasDefect(items[2])
    /\ valid_data = <<items[2]>>

\* C14: a malformed row of the account listing or of a bulk response is
\* skipped on its own: when the loop over the rows is left, the holdings
\* emitted for the other rows of the response are handed on.
C14_MalformedRowSkipped ==
    [][/\ (pc = "spot_rows" /\ rowsLeft = 0) => spot_data' = spot_data
       /\ (pc = "bulk_rows" /\ rowsLeft = 0) =>
             all_positions' = all_positions \o positions]_vars

\* C15: _get_spot_data never raises: every step of it stays in it or returns
\* to get_portfolio_data, which goes on with _get_earn_data; when the listing
\* call or a row fails, the list returned is empty.
C15_SpotNeverRaises ==
    [][(pc \in {"spot", "spot_rows"}) =>
          /\ pc' \in {"spot_rows", "bulk"}
          /\ outcome' = "none"
          /\ "Spot" \in failed' => (pc' = "bulk" /\ spot_data' = <<>>)]_vars

\* C15 witness: the listing call failed and _get_earn_data has begun
C15_Witness ==
    /\ "Spot" \in failed
    /\ pc = "bulk"
    /\ reqs = 0
    /\ spot_data = <<>>
    /\ rowsSeen = 0

\* res holds exactly the holdings of src worth 1.0 or more (src holds no
\* holding twice)
HoldsNonDustOf(res, src) ==
    /\ Len(res) = Cardinality({k \in DOMAIN src : src[k].current_value >= Unit})
    /\ \A k \in DOMAIN src :
          src[k].current_value >= Unit => \E i \in DOMAIN res : res[i] = src[k]

IsSpot(h) == h.source = "Spot"

\* C16: when one of the two sources failed entirely and the other did not,
\* get_portfolio_data does not raise and returns the other's holdings worth
\* 1.0 or more.
C16_OneSourceFailed ==
    /\ (outcome # "none" /\ "Spot" \in failed /\ ~EarnFailedEntirely) =>
          outcome = "returned" /\ HoldsNonDustOf(result, earn_result)
    /\ (outcome # "none" /\ "Spot" \notin failed /\ EarnFailedEntirely) =>
          outcome = "returned" /\ HoldsNonDustOf(SelectSeq(result, IsSpot), spot_data)

\* C16 witness: the account listing failed and a Simple Earn holding is returned
C16_Witness ==
    /\ outcome = "returned"
    /\ "Spot" \in failed
    /\ ~EarnFailedEntirely
    /\ Len(result) = 1
    /\ result[1].source = "Simple Earn"

\* C17: a targeted lookup that fails does not end Strategy B: when
\* _get_earn_data returns, every missing asset has been asked for, and for
\* every asset a targeted lookup found, its first holding is in the result.
C17_TargetedFailureIsolated ==
    outcome = "returned" =>
        /\ asked = Range(missing_assets)
        /\ \A a \in AssetsOf(tgt_positions) :
              \E k \in DOMAIN earn_result : earn_result[k] = FirstOf(tgt_positions, a)

\* C17 witness: both endpoints gave nothing for the first missing asset, and
\* the second missing asset's holding is in the result
C17_Witness ==
    /\ outcome = "returned"
    /\ Len(missing_assets) = 2
    /\ missing_assets[1] \in tgtFailed
    /\ missing_assets[1] \notin AssetsOf(earn_result)
    /\ missing_assets[2] \in AssetsOf(tgt_positions)
    /\ missing_assets[2] \in AssetsOf(earn_result)

\* C18: with the exchange API key or secret unset, main returns False after
\* Config.validate and does nothing else: no client is constructed, no
\* connection tested, no balance fetched, no sheet written.
C18_NoKeyNoNetwork ==
    (~config.api_key \/ ~config.secret_key) =>
        /\ mainpc \in {"start", "False"}
        /\ main_log = {}
        /\ pc = "idle"
        /\ outcome = "none"

\* C18 witness: only the API secret is unset, and main has returned False
C18_Witness ==
    /\ mainpc = "False"
    /\ config = [AllSet EXCEPT !.secret_key = FALSE]
    /\ main_log = {}

\* C19: every holding the three fetches emit, and so every holding of the
\* returned list, has current_value = quantity * current_price with
\* quantity > 0 and current_price > 0.
C19_ValueIsQuantityTimesPrice ==
    \A h \in AllHoldings \cup Range(tgt_positions) :
        /\ h.current_value = h.quantity * h.current_price
        /\ h.quantity > 0
        /\ h.current_price > 0

\* C19 witness: a Spot, a bulk and a targeted holding, each of several units
\* at a price other than 1
C19_Witness ==
    /\ \E h \in Range(result) :
          h.source = "Spot" /\ h.quantity > 1 /\ h.current_price > 1
    /\ \E h \in Range(all_positions) \cup Range(tgt_positions) :
          h.quantity > 1 /\ h.current_price > 1

\* the last call asked the exchange and got a price, directly or by two hops
LastResolved(l) ==
    /\ l.calls # <<>>
    /\ l.tk.direct # Fail \/ (l.tk.hop1 # Fail /\ l.tk.hop2 # Fail)

\* C20: a resolution that got a price from the exchange leaves the asset's
\* cache entry at that price and the time of the call, whatever was there; no
\* step takes a key out of the cache.
C20_CacheOverwrittenNeverShrinks ==
    [][/\ DOMAIN price_cache \subseteq DOMAIN price_cache'
       /\ (last'.n = last.n + 1 /\ LastResolved(last')) =>
             /\ last'.asset \in DOMAIN price_cache'
             /\ price_cache'[last'.asset] = [price |-> last'.price, time |-> last'.at]]_vars

\* C20 witness: an entry 300 s old was replaced by the new price and time
C20_Witness ==
    /\ last.n = 2
    /\ last.hadEntry
    /\ LastResolved(last)
    /\ last.at = last.cachedAt + 300
    /\ last.price # last.cached
    /\ price_cache[last.asset] = [price |-> last.price, time |-> last.at]

\* where h stands in seq (seq holds h once)
PosIn(seq, h) == CHOOSE k \in DOMAIN seq : seq[k] = h

\* C22: the sort is stable: two holdings of the same value stand in the
\* returned list in the order they had in spot_data followed by earn_data.
C22_SortStable ==
    outcome = "returned" =>
        \A i, j \in DOMAIN result :
            (i < j /\ result[i].current_value = result[j].current_value) =>
                PosIn(spot_data \o earn_result, result[i])
                    < PosIn(spot_data \o earn_result, result[j])

\* C22 witness: a Spot and a Simple Earn holding of the same value, of
\* different assets, returned in that order
C22_Witness ==
    /\ outcome = "returned"
    /\ Len(result) = 2
    /\ result[1].current_value = result[2].current_value
    /\ result[1].source = "Spot"
    /\ result[2].source = "Simple Earn"
    /\ result[1].asset # result[2].asset

\* C23: the Spot fetch emits a holding only for a balance whose asset does
\* not start with LD and whose free + locked is positive, with that sum as
\* quantity, and looks no price up for a balance it skips.
C23_SpotSkipsWrappersAndEmpty ==
    pc = "spot_rows" =>
        /\ \A i \in DOMAIN rowlog :
              rowlog[i].looked =>
                  /\ rowlog[i].asset \notin {"LDBTC"}
                  /\ rowlog[i].free + rowlog[i].locked > 0
        /\ Len(spot_data) =
              Cardinality({i \in DOMAIN rowlog : rowlog[i].looked /\ rowlog[i].price > 0})
        /\ \A k \in DOMAIN spot_data :
              \E i \in DOMAIN rowlog :
                  /\ rowlog[i].looked
                  /\ rowlog[i].asset = spot_data[k].asset
                  /\ spot_data[k].quantity = rowlog[i].free + rowlog[i].locked

\* C23 witness: an LD balance that is not empty was skipped without a price
\* lookup, and a balance with free and locked parts was emitted with their sum
C23_Witness ==
    /\ pc = "spot_rows"
    /\ Len(rowlog) = 2
    /\ rowlog[1].asset = "LDBTC"
    /\ rowlog[1].free + rowlog[1].locked > 0
    /\ ~rowlog[1].looked
    /\ rowlog[2].free > 0 /\ rowlog[2].locked > 0
    /\ Len(spot_data) = 1
    /\ spot_data[1].quantity = rowlog[2].free + rowlog[2].locked

\* the subtype of the rows of endpoint e
SubtypeOf(e) == IF e = "FLEXIBLE" THEN "Flexible" ELSE "Locked"

SpotTagged(h) == h.source = "Spot" /\ h.type = "Spot" /\ h.apr = 0

EarnTagged(h) ==
    /\ h.source = "Simple Earn"
    /\ h.type \in {"Flexible", "Locked"}
    /\ \E rate \in Rates : h.apr = rate * 100

\* the last n holdings of seq
LastN(seq, n) == SubSeq(seq, Len(seq) - n + 1, Len(seq))

\* how many rows of the response in hand were emitted
EmittedCount == Cardinality({i \in DOMAIN rowlog :
                                rowlog[i].looked /\ ~rowlog[i].raised /\ rowlog[i].price > 0})

\* C24: Spot holdings have source Spot, subtype Spot and rate 0; Simple Earn
\* holdings have source Simple Earn, the subtype of the endpoint that sent the
\* row and the reported rate times 100.
C24_TaggedByOrigin ==
    /\ \A h \in Range(spot_data) : SpotTagged(h)
    /\ \A h \in Range(positions) \cup Range(all_positions) \cup Range(tgt_positions)
                  \cup Range(earn_data) \cup Range(earn_result) : EarnTagged(h)
    /\ \A h \in Range(result) : SpotTagged(h) \/ EarnTagged(h)
    /\ pc = "bulk_rows" =>
          \A h \in Range(positions) : h.type = SubtypeOf(endpoints[ep])
    /\ pc = "tgt_rows" =>
          \A h \in Range(LastN(positions, EmittedCount)) : h.type = SubtypeOf(endpoints[ep])
    /\ \A h \in Range(all_positions) :
          /\ h.type = "Flexible" => "FLEXIBLE" \notin failed
          /\ h.type = "Locked" => "LOCKED" \notin failed

\* C24 witness: a flexible position is in all_positions and a row of the
\* LOCKED endpoint has been emitted
C24_Witness ==
    /\ pc = "bulk_rows"
    /\ endpoints[ep] = "LOCKED"
    /\ Len(positions) = 1
    /\ positions[1].type = "Locked"
    /\ positions[1].apr = 100
    /\ Len(all_positions) = 1
    /\ all_positions[1].type = "Flexible"
    /\ Len(spot_data) = 0

\* the most steps one attempt of a retry loop takes: the request, then the
\* delay or the rows and the end of their loop
AttemptSteps == MaxRows + 2

\* the most steps left in the retry loop now running, of n attempts
LoopLeft(n) ==
    CASE pc \in {"bulk", "tgt"} -> (n - attempt) * AttemptSteps
      [] pc \in {"bulk_sleep", "tgt_sleep"} -> 1 + (n - attempt - 1) * AttemptSteps
      [] OTHER -> rowsLeft + 1

\* the most steps all the targeted lookups of k assets take
TargetedSteps(k) == k * Len(endpoints) * 2 * AttemptSteps

\* the most steps left in the cycle
StepsLeft ==
    CASE pc = "spot" ->
            AttemptSteps + Len(endpoints) * 3 * AttemptSteps
                + TargetedSteps(Len(known_assets))
      [] pc = "spot_rows" ->
            rowsLeft + 1 + Len(endpoints) * 3 * AttemptSteps
                + TargetedSteps(Len(known_assets))
      [] pc \in {"bulk", "bulk_sleep", "bulk_rows"} ->
            LoopLeft(3) + (Len(endpoints) - ep) * 3 * AttemptSteps
                + TargetedSteps(Len(known_assets))
      [] pc \in {"tgt", "tgt_sleep", "tgt_rows"} ->
            LoopLeft(2) + (Len(endpoints) - ep) * 2 * AttemptSteps
                + TargetedSteps(Len(missing_assets) - mi)
      [] OTHER -> 0

\* C25: every aggregation cycle ends after a bounded number of steps: from
\* the call of get_portfolio_data on, every step (a request, a delay, a row)
\* lowers a count of the steps left that starts bounded and never goes below
\* 0, whatever the requests and the price lookups answer.
C25_CycleTerminates ==
    [][(pc \notin {"idle", "done"}) =>
          /\ StepsLeft' < StepsLeft
          /\ StepsLeft' >= 0
          /\ pc' = "done" => outcome' # "none"]_vars

\* C25 witness: a cycle has ended in which the account listing, both bulk
\* endpoints and the targeted lookups of every known asset failed
C25_Witness ==
    /\ outcome # "none"
    /\ failed = {"Spot", "FLEXIBLE", "LOCKED"}
    /\ tgtFailed = Range(known_assets)
    /\ ~tgtOk

\* C28: a call that finds the asset's entry 300 s old or older and gets no
\* price from the exchange (the direct lookup and one of the two hops fail)
\* returns 0.0, not the stale price, and leaves the whole cache as it was:
\* the stale entry keeps its price and its time.
C28_FailedResolutionKeepsCache ==
    [][(/\ last'.n = last.n + 1
        /\ last'.hadEntry
        /\ last'.at - last'.cachedAt >= 300
        /\ last'.tk.direct = Fail
        /\ (last'.tk.hop1 = Fail \/ last'.tk.hop2 = Fail)) =>
           /\ last'.price = 0
           /\ price_cache' = price_cache
           /\ price_cache'[last'.asset] =
                 [price |-> last'.cached, time |-> last'.cachedAt]]_vars

\* C28 witness: the second call found a priced entry exactly 300 s old, both
\* lookups failed, 0 came back and the entry is still there
C28_Witness ==
    /\ last.n = 2
    /\ last.hadEntry
    /\ last.cached > 0
    /\ last.at - last.cachedAt = 300
    /\ last.tk.direct = Fail
    /\ last.tk.hop1 = Fail
    /\ last.price = 0
    /\ price_cache[last.asset] = [price |-> last.cached, time |-> last.cachedAt]

\* the positions of the bulk call
BulkStages == {"bulk", "bulk_sleep", "bulk_rows"}

\* the step leaves the retry loop of the bulk endpoint in hand
LeavesEndpoint == pc \in BulkStages /\ ~(pc' \in BulkStages /\ ep' = ep)

\* C30: the two bulk endpoints are independent.  However the loop of FLEXIBLE
\* ends (attempts exhausted, processing raised, or success), the next step is
\* the first request to LOCKED; however the loop of LOCKED ends, what was
\* collected so far is what _get_all_simple_earn_positions returns.  A failed
\* endpoint leaves all_positions as it was, and all_positions grows only when
\* an endpoint's 200 response was gone through to its last row without an
\* exception, by the positions of that response.
C30_BulkEndpointsIndependent ==
    [][(pc \in BulkStages) =>
          /\ ~LeavesEndpoint => all_positions' = all_positions
          /\ LeavesEndpoint =>
                /\ ep = 1 => (pc' = "bulk" /\ ep' = 2 /\ attempt' = 0 /\ reqs' = 0)
                /\ ep = 2 => (pc' \notin BulkStages /\ earn_data' = all_positions')
                /\ IF endpoints[ep] \in failed'
                   THEN all_positions' = all_positions
                   ELSE /\ pc = "bulk_rows" => lastResp = "ok"
                        /\ rowsLeft = 0
                        /\ ~Raised(Cur)
                        /\ all_positions' = all_positions \o
                              (IF pc = "bulk_rows" THEN positions ELSE <<>>)]_vars

\* C30 witness: FLEXIBLE failed, LOCKED was answered and its position is in
\* what the bulk call returned
C30_Witness ==
    /\ outcome = "returned"
    /\ failed = {"FLEXIBLE"}
    /\ all_positions # <<>>
    /\ \A i \in DOMAIN all_positions : all_positions[i].type = "Locked"
    /\ earn_data = all_positions

\* C30 witness, the other way round: LOCKED failed and the position of FLEXIBLE
\* is still returned
C30_WitnessLockedFailed ==
    /\ outcome = "returned"
    /\ failed = {"LOCKED"}
    /\ all_positions # <<>>
    /\ \A i \in DOMAIN all_positions : all_positions[i].type = "Flexible"

\* column C of the Portfolio tab, top down
ColumnC(sh) == [r \in Rows |-> sh[r][ColC]]

\* C26: update_portfolio preserves column C of the Portfolio tab: no step of
\* the update (clear, headers, data rows, summary row) clears or writes a
\* cell of column C, whatever the length of the portfolio and whatever the
\* tab held before.
C26_ColumnCPreserved ==
    [][(mainpc = "update") => ColumnC(sheet') = ColumnC(sheet)]_vars

\* the history rows of the Overview tab: what values().get returns below row 1
HistoryOf(tab) ==
    LET rows == ValuesOf(tab)
    IN  IF rows = <<>> THEN <<>> ELSE Tail(rows)

\* the tab is the header row followed by history rows in chronological order
IsHistory(tab) ==
    LET rows == ValuesOf(tab)
        h == HistoryOf(tab)
    IN  /\ rows # <<>> => rows[1] = HeaderRow
        /\ \A i \in DOMAIN h : h[i].kind = "row"
        /\ \A i, j \in DOMAIN h : i < j => h[i].time <= h[j].time

Untouched ==
    /\ sheet = UserSheet(SheetRows - 1)
    /\ overview = EmptyTab
    /\ chart = <<>>

\* C29: main calls update_portfolio only after Config.validate, both
\* test_connection calls and get_portfolio_data have succeeded, and with the
\* non-empty list get_portfolio_data returned; a cell of the spreadsheet
\* changes only inside that call; and when get_portfolio_data raised or
\* returned an empty list main returns False without the call, the
\* spreadsheet as it was.
C29_SinkOnlyAfterSuccess ==
    [][/\ ("update_portfolio" \in main_log' /\ "update_portfolio" \notin main_log) =>
             /\ ConfigValidate(config)
             /\ {"binance connected", "sheets connected", "get_portfolio_data"}
                   \subseteq main_log
             /\ outcome = "returned"
             /\ result # <<>>
             /\ sheet_data' = result
       /\ <<sheet, overview, chart>>' # <<sheet, overview, chart>> =>
             /\ "update_portfolio" \in main_log
             /\ mainpc = "update"
             /\ sheet_data # <<>>
       /\ (mainpc = "fetch" /\ pc = "done" /\ (outcome = "raised" \/ result = <<>>)) =>
             /\ mainpc' = "False"
             /\ "update_portfolio" \notin main_log'
       /\ (mainpc' \in {"True", "False"} /\ "update_portfolio" \notin main_log') =>
             /\ mainpc' = "False"
             /\ Untouched']_vars

\* C29 witness: main has returned True, and the first holding of the list
\* stands in row 2 of the Portfolio tab
C29_Witness ==
    /\ mainpc = "True"
    /\ "update_portfolio" \in main_log
    /\ sheet_data # <<>>
    /\ sheet[2][1] = sheet_data[1].asset
    /\ ~Untouched

\* C29 witness of the other case: get_portfolio_data returned an empty list
\* and main returned False
C29_WitnessEmpty ==
    /\ mainpc = "False"
    /\ "get_portfolio_data" \in main_log
    /\ "update_portfolio" \notin main_log
    /\ Untouched

====
